---- MODULE Spec2Model ----
(***************************************************************************)
(* State-machine model of nice-modal-solid (src/src/index.tsx): the modal  *)
(* Store and its reducer, the Registry, the AlreadyMounted table, the      *)
(* Callback Bridge (modalCallbacks / hideModalCallbacks), the Dispatcher   *)
(* installed by the Root Provider, the imperative API, the Handler View    *)
(* returned by useModal and the Mounting Adapter returned by create.       *)
(*                                                                         *)
(* JavaScript objects used as tables are functions whose DOMAIN is the set *)
(* of keys present; `undefined' is the string Undef.  A promise is named   *)
(* by its position in the sequence `promises', in order of creation.       *)
(***************************************************************************)
EXTENDS Integers, Sequences, FiniteSets, TLC

\* ------------------------------------------------------------------ bounds
\* At most MaxPromises promises are created in one behaviour.
MaxPromises == 3

\* A ModalHolder takes an id from getUid only while fewer than MaxUid ids
\* were generated.
MaxUid == 2

\* ------------------------------------------------------------------ inputs
Undef == "undefined"
\* Modal ids the application passes as strings.
StringIds == {"m1", "m2"}
\* Component references the application passes instead of a string id.
Comps == {"CompA", "CompB"}
\* The argument objects of show (besides no argument at all).
ArgVals == {"a1"}
Args == ArgVals \cup {Undef}
\* The payloads handed to resolve / reject / resolveHide.
Payloads == {"42"}

VARIABLES
    dispatch,            \* "default" (throws) or "provider" (applies reducer)
    modals,              \* the Store: id -> NiceModalState
    MODAL_REGISTRY,      \* id -> [comp, props]
    ALREADY_MOUNTED,     \* set of ids whose key is set in ALREADY_MOUNTED
    uidSeed,             \* counter behind getUid
    symModalId,          \* component reference -> id tagged on it
    modalCallbacks,      \* id -> promise of the pending show-callback
    hideModalCallbacks,  \* id -> promise of the pending hide-callback
    promises,            \* every promise created so far, with its state
    adapter,             \* id -> phase of the rendered create() component
    applied,             \* id -> show / set-flags applied since the last remove
    lastCall             \* the latest show/hide/remove/setFlags call and its outcome

vars == <<dispatch, modals, MODAL_REGISTRY, ALREADY_MOUNTED, uidSeed,
          symModalId, modalCallbacks, hideModalCallbacks, promises,
          adapter, applied, lastCall>>

\* ----------------------------------------------------------- JS objects
\* {} : the object with no key.
EmptyObj == <<>>

\* obj[key], undefined spread as the empty object: {...obj[key]}.
Spread(obj, key) == IF key \in DOMAIN obj THEN obj[key] ELSE EmptyObj

\* {...a, ...b}
Merge(a, b) ==
    [k \in (DOMAIN a) \cup (DOMAIN b) |-> IF k \in DOMAIN b THEN b[k] ELSE a[k]]

\* {...obj, [key]: val}
With(obj, key, val) ==
    [k \in (DOMAIN obj) \cup {key} |-> IF k = key THEN val ELSE obj[k]]

\* delete obj[key]
Without(obj, key) == [k \in (DOMAIN obj) \ {key} |-> obj[k]]

\* obj[key]?.field, undefined when the key or the field is missing.
Field(obj, key, field) ==
    IF key \in DOMAIN obj /\ field \in DOMAIN obj[key] THEN obj[key][field] ELSE Undef

\* ------------------------------------------------------------- reducer
showModal(modalId, args) ==
    [type |-> "nice-modal/show", payload |-> [modalId |-> modalId, args |-> args]]

setModalFlags(modalId, flags) ==
    [type |-> "nice-modal/set-flags", payload |-> [modalId |-> modalId, flags |-> flags]]

hideModal(modalId) ==
    [type |-> "nice-modal/hide", payload |-> [modalId |-> modalId]]

removeModal(modalId) ==
    [type |-> "nice-modal/remove", payload |-> [modalId |-> modalId]]

\* An action of a kind the reducer does not know.
someAction == [type |-> "some-action", payload |-> [modalId |-> Undef]]

\* Faulty show case: never grants visibility, mounted or not.
reduceShowNeverVisible(state, modalId, args) ==
    With(state, modalId,
         Merge(Spread(state, modalId),
               [id |-> modalId,
                args |-> args,
                visible |-> FALSE,
                delayVisible |-> (modalId \notin ALREADY_MOUNTED)]))

\* Faulty show case: marks the entry delayVisible, mounted or not.
reduceShowAlwaysDelays(state, modalId, args) ==
    With(state, modalId,
         Merge(Spread(state, modalId),
               [id |-> modalId,
                args |-> args,
                visible |-> (modalId \in ALREADY_MOUNTED),
                delayVisible |-> TRUE]))

\* Faulty show case: builds the entry anew, without the flags it had.
reduceShowDropsFlags(state, modalId, args) ==
    With(state, modalId,
         [id |-> modalId,
          args |-> args,
          visible |-> (modalId \in ALREADY_MOUNTED),
          delayVisible |-> (modalId \notin ALREADY_MOUNTED)])

\* case 'nice-modal/show'
reduceShow(state, modalId, args) ==
    With(state, modalId,
         Merge(Spread(state, modalId),
               [id |-> modalId,
                args |-> args,
                visible |-> (modalId \in ALREADY_MOUNTED),
                delayVisible |-> (modalId \notin ALREADY_MOUNTED)]))

\* Faulty hide case: no early return for an id the state lacks.
reduceHideUnguarded(state, modalId) ==
    With(state, modalId, Merge(Spread(state, modalId), [visible |-> FALSE]))

\* Faulty hide case: clears delayVisible together with visible.
reduceHideClearsDelay(state, modalId) ==
    IF modalId \notin DOMAIN state
    THEN state
    ELSE With(state, modalId,
              Merge(state[modalId], [visible |-> FALSE, delayVisible |-> FALSE]))

\* case 'nice-modal/hide'
reduceHide(state, modalId) ==
    IF modalId \notin DOMAIN state
    THEN state
    ELSE With(state, modalId, Merge(state[modalId], [visible |-> FALSE]))

\* Faulty remove case: returns a state without any entry.
reduceRemoveAll(state, modalId) == EmptyObj

\* case 'nice-modal/remove'
reduceRemove(state, modalId) == Without(state, modalId)

\* case 'nice-modal/set-flags'
reduceSetFlags(state, modalId, flags) ==
    With(state, modalId, Merge(Spread(state, modalId), flags))

reducer(state, action) ==
    CASE action.type = "nice-modal/show" ->
           reduceShow(state, action.payload.modalId, action.payload.args)
      [] action.type = "nice-modal/hide" ->
           reduceHide(state, action.payload.modalId)
      [] action.type = "nice-modal/remove" ->
           reduceRemove(state, action.payload.modalId)
      [] action.type = "nice-modal/set-flags" ->
           reduceSetFlags(state, action.payload.modalId, action.payload.flags)
      [] OTHER -> state

\* applied once `action' went through the dispatcher: for each id, the show
\* and set-flags action types applied since the last remove of that id.
appliedAfter(action) ==
    LET id == action.payload.modalId
        was == IF id \in DOMAIN applied THEN applied[id] ELSE {}
    IN  CASE action.type = "nice-modal/remove" -> Without(applied, id)
          [] action.type = "nice-modal/show" -> With(applied, id, was \cup {"show"})
          [] action.type = "nice-modal/set-flags" -> With(applied, id, was \cup {"set-flags"})
          [] OTHER -> applied

\* --------------------------------------------------- ids and the registry
IsComponent(modal) == modal \in Comps

getUid == "_nice_modal_" \o ToString(uidSeed)

getModalId(modal) ==
    IF ~IsComponent(modal) THEN modal
    ELSE IF modal \in DOMAIN symModalId THEN symModalId[modal]
    ELSE getUid

\* symModalId and uidSeed once getModalId(modal) has run.
symModalIdAfter(modal) ==
    IF IsComponent(modal) /\ modal \notin DOMAIN symModalId
    THEN With(symModalId, modal, getUid)
    ELSE symModalId

\* Faulty getUid: the seed is not incremented.
uidSeedAfterStuck(modal) == uidSeed

uidSeedAfter(modal) ==
    IF IsComponent(modal) /\ modal \notin DOMAIN symModalId
    THEN uidSeed + 1
    ELSE uidSeed

getModal(modalId) == Field(MODAL_REGISTRY, modalId, "comp")

\* Faulty register: a second register replaces the component too.
registerInReplacing(registry, id, comp, props) ==
    With(registry, id, [comp |-> comp, props |-> props])

\* MODAL_REGISTRY once register(id, comp, props) has run.
registerIn(registry, id, comp, props) ==
    IF id \notin DOMAIN registry
    THEN With(registry, id, [comp |-> comp, props |-> props])
    ELSE With(registry, id, [comp |-> registry[id].comp, props |-> props])

\* MODAL_REGISTRY once unregister(id) has run.
unregisterIn(registry, id) == Without(registry, id)

\* ---------------------------------------------------------------- promises
\* new Promise(...): pending, tagged with the call that created it.
NewPromise(api, modalId) ==
    [state |-> "pending", value |-> Undef, api |-> api, id |-> modalId]

\* The resolve / reject function of promise p: the first call settles the
\* promise, a call on a settled promise does nothing.
Settle(ps, p, state, value) ==
    IF ps[p].state = "pending"
    THEN [ps EXCEPT ![p] = [@ EXCEPT !.state = state, !.value = value]]
    ELSE ps

IsPending(p) == p \in 1..Len(promises) /\ promises[p].state = "pending"

\* ---------------------------------------------------------------- dispatch
DispatchError ==
    "No dispatch method detected, did you embed your app with NiceModal.Provider?"

Installed == dispatch = "provider"

\* Faulty default dispatch: does nothing instead of throwing.
ThrewNothing(op, id) ==
    [op |-> op, id |-> id, error |-> Undef, ret |-> 0, fresh |-> FALSE]

\* The call ended in the throw of the default dispatch.
Threw(op, id) ==
    [op |-> op, id |-> id, error |-> DispatchError, ret |-> 0, fresh |-> FALSE]

\* The call returned: ret is the promise returned (0 for a call that returns
\* nothing), fresh whether the call created that promise.
Returned(op, id, ret) ==
    [op |-> op, id |-> id, error |-> Undef, ret |-> ret, fresh |-> ret > Len(promises)]

\* The dispatcher InnerContextProvider installs.
dispatchInner(action) ==
    /\ modals' = reducer(modals, action)
    /\ applied' = appliedAfter(action)

\* ----------------------------------------------------- the Callback Bridge
\* Faulty show: creates a promise on every call, pending callback or not.
bridgeAfterShowAlwaysNew(modalId) ==
    [show |-> With(modalCallbacks, modalId, Len(promises) + 1),
     hide |-> hideModalCallbacks,
     promises |-> Append(promises, NewPromise("show", modalId))]

\* show, after its dispatch: both tables and the promises.
bridgeAfterShow(modalId) ==
    IF modalId \notin DOMAIN modalCallbacks
    THEN [show |-> With(modalCallbacks, modalId, Len(promises) + 1),
          hide |-> hideModalCallbacks,
          promises |-> Append(promises, NewPromise("show", modalId))]
    ELSE [show |-> modalCallbacks, hide |-> hideModalCallbacks, promises |-> promises]

\* Faulty hide: keeps the pending show-callback.
bridgeAfterHideKeepsShow(modalId) ==
    IF modalId \notin DOMAIN hideModalCallbacks
    THEN [show |-> modalCallbacks,
          hide |-> With(hideModalCallbacks, modalId, Len(promises) + 1),
          promises |-> Append(promises, NewPromise("hide", modalId))]
    ELSE [show |-> modalCallbacks, hide |-> hideModalCallbacks, promises |-> promises]

\* Faulty hide: creates a promise on every call, pending callback or not.
bridgeAfterHideAlwaysNew(modalId) ==
    [show |-> Without(modalCallbacks, modalId),
     hide |-> With(hideModalCallbacks, modalId, Len(promises) + 1),
     promises |-> Append(promises, NewPromise("hide", modalId))]

\* hide, after its dispatch.
bridgeAfterHide(modalId) ==
    IF modalId \notin DOMAIN hideModalCallbacks
    THEN [show |-> Without(modalCallbacks, modalId),
          hide |-> With(hideModalCallbacks, modalId, Len(promises) + 1),
          promises |-> Append(promises, NewPromise("hide", modalId))]
    ELSE [show |-> Without(modalCallbacks, modalId),
          hide |-> hideModalCallbacks,
          promises |-> promises]

\* Faulty remove: rejects the pending show promise instead of dropping it.
bridgeAfterRemoveRejects(modalId) ==
    [show |-> Without(modalCallbacks, modalId),
     hide |-> Without(hideModalCallbacks, modalId),
     promises |-> IF modalId \in DOMAIN modalCallbacks
                  THEN Settle(promises, modalCallbacks[modalId], "rejected", Undef)
                  ELSE promises]

\* remove, after its dispatch.
bridgeAfterRemove(modalId) ==
    [show |-> Without(modalCallbacks, modalId),
     hide |-> Without(hideModalCallbacks, modalId),
     promises |-> promises]

\* Faulty resolve / reject: settles the callback and leaves it in the table.
bridgeAfterSettleKeepsEntry(mid, state, payload) ==
    [show |-> modalCallbacks,
     hide |-> hideModalCallbacks,
     promises |-> IF mid \in DOMAIN modalCallbacks
                  THEN Settle(promises, modalCallbacks[mid], state, payload)
                  ELSE promises]

\* The Handler View's resolve (state "fulfilled") and reject ("rejected").
bridgeAfterSettle(mid, state, payload) ==
    [show |-> Without(modalCallbacks, mid),
     hide |-> hideModalCallbacks,
     promises |-> IF mid \in DOMAIN modalCallbacks
                  THEN Settle(promises, modalCallbacks[mid], state, payload)
                  ELSE promises]

\* Faulty resolveHide: settles the hide-callback and leaves it in the table.
bridgeAfterResolveHideKeepsEntry(mid, payload) ==
    [show |-> modalCallbacks,
     hide |-> hideModalCallbacks,
     promises |-> IF mid \in DOMAIN hideModalCallbacks
                  THEN Settle(promises, hideModalCallbacks[mid], "fulfilled", payload)
                  ELSE promises]

\* Faulty resolveHide: settles the hide-callback without the payload.
bridgeAfterResolveHideNoPayload(mid, payload) ==
    [show |-> modalCallbacks,
     hide |-> Without(hideModalCallbacks, mid),
     promises |-> IF mid \in DOMAIN hideModalCallbacks
                  THEN Settle(promises, hideModalCallbacks[mid], "fulfilled", Undef)
                  ELSE promises]

\* The Handler View's resolveHide.
bridgeAfterResolveHide(mid, payload) ==
    [show |-> modalCallbacks,
     hide |-> Without(hideModalCallbacks, mid),
     promises |-> IF mid \in DOMAIN hideModalCallbacks
                  THEN Settle(promises, hideModalCallbacks[mid], "fulfilled", payload)
                  ELSE promises]

SetBridge(b) ==
    /\ Len(b.promises) <= MaxPromises
    /\ modalCallbacks' = b.show
    /\ hideModalCallbacks' = b.hide
    /\ promises' = b.promises

\* ------------------------------------------------------- imperative API
\* What a call of show / hide / remove / setFlags does to everything but
\* dispatch, ALREADY_MOUNTED and adapter (the caller states those).

\* Faulty show: creates the show-callback before it dispatches.
showCallCreatesFirst(modal, args) ==
    LET modalId == getModalId(modal)
    IN  /\ symModalId' = symModalIdAfter(modal)
        /\ uidSeed' = uidSeedAfter(modal)
        /\ MODAL_REGISTRY' =
              IF IsComponent(modal) /\ modalId \notin DOMAIN MODAL_REGISTRY
              THEN registerIn(MODAL_REGISTRY, modalId, modal, Undef)
              ELSE MODAL_REGISTRY
        /\ SetBridge(bridgeAfterShow(modalId))
        /\ IF Installed
           THEN /\ dispatchInner(showModal(modalId, args))
                /\ lastCall' = Returned("show", modalId, bridgeAfterShow(modalId).show[modalId])
           ELSE /\ lastCall' = Threw("show", modalId)
                /\ UNCHANGED <<modals, applied>>

\* show(modal, args)
showCall(modal, args) ==
    LET modalId == getModalId(modal)
    IN  /\ symModalId' = symModalIdAfter(modal)
        /\ uidSeed' = uidSeedAfter(modal)
        /\ MODAL_REGISTRY' =
              IF IsComponent(modal) /\ modalId \notin DOMAIN MODAL_REGISTRY
              THEN registerIn(MODAL_REGISTRY, modalId, modal, Undef)
              ELSE MODAL_REGISTRY
        /\ IF Installed
           THEN /\ dispatchInner(showModal(modalId, args))
                /\ SetBridge(bridgeAfterShow(modalId))
                /\ lastCall' = Returned("show", modalId, bridgeAfterShow(modalId).show[modalId])
           ELSE /\ lastCall' = Threw("show", modalId)
                /\ UNCHANGED <<modals, applied, modalCallbacks, hideModalCallbacks, promises>>

\* hide(modal)
hideCall(modal) ==
    LET modalId == getModalId(modal)
    IN  /\ symModalId' = symModalIdAfter(modal)
        /\ uidSeed' = uidSeedAfter(modal)
        /\ IF Installed
           THEN /\ dispatchInner(hideModal(modalId))
                /\ SetBridge(bridgeAfterHide(modalId))
                /\ lastCall' = Returned("hide", modalId, bridgeAfterHide(modalId).hide[modalId])
           ELSE /\ lastCall' = Threw("hide", modalId)
                /\ UNCHANGED <<modals, applied, modalCallbacks, hideModalCallbacks, promises>>
        /\ UNCHANGED MODAL_REGISTRY

\* remove(modal)
removeCall(modal) ==
    LET modalId == getModalId(modal)
    IN  /\ symModalId' = symModalIdAfter(modal)
        /\ uidSeed' = uidSeedAfter(modal)
        /\ IF Installed
           THEN /\ dispatchInner(removeModal(modalId))
                /\ SetBridge(bridgeAfterRemove(modalId))
                /\ lastCall' = Returned("remove", modalId, 0)
           ELSE /\ lastCall' = Threw("remove", modalId)
                /\ UNCHANGED <<modals, applied, modalCallbacks, hideModalCallbacks, promises>>
        /\ UNCHANGED MODAL_REGISTRY

\* setFlags(modalId, flags)
setFlagsCall(modalId, flags) ==
    /\ IF Installed
       THEN /\ dispatchInner(setModalFlags(modalId, flags))
            /\ lastCall' = Returned("setFlags", modalId, 0)
       ELSE /\ lastCall' = Threw("setFlags", modalId)
            /\ UNCHANGED <<modals, applied>>
    /\ UNCHANGED <<symModalId, uidSeed, MODAL_REGISTRY, modalCallbacks,
                   hideModalCallbacks, promises>>

show(modal, args) ==
    /\ showCall(modal, args)
    /\ UNCHANGED <<dispatch, ALREADY_MOUNTED, adapter>>

hide(modal) ==
    /\ hideCall(modal)
    /\ UNCHANGED <<dispatch, ALREADY_MOUNTED, adapter>>

remove(modal) ==
    /\ removeCall(modal)
    /\ UNCHANGED <<dispatch, ALREADY_MOUNTED, adapter>>

\* ------------------------------------------------------------ Handler View
\* The ids a Handler View can be bound to: useModal(id), useModal(Comp).
HandlerIds == StringIds \cup {symModalId[c] : c \in DOMAIN symModalId}

\* useModal(modal, args): resolves the id and, in its effect, registers a
\* component reference that is not registered yet.
useModal(modal, args) ==
    LET mid == getModalId(modal)
    IN  /\ symModalId' = symModalIdAfter(modal)
        /\ uidSeed' = uidSeedAfter(modal)
        /\ MODAL_REGISTRY' =
              IF IsComponent(modal) /\ mid \notin DOMAIN MODAL_REGISTRY
              THEN registerIn(MODAL_REGISTRY, mid, modal, args)
              ELSE MODAL_REGISTRY
        /\ UNCHANGED <<dispatch, modals, ALREADY_MOUNTED, modalCallbacks,
                       hideModalCallbacks, promises, adapter, applied, lastCall>>

SettleFrame ==
    UNCHANGED <<dispatch, modals, MODAL_REGISTRY, ALREADY_MOUNTED, uidSeed,
                symModalId, adapter, applied, lastCall>>

\* handler.resolve(payload)
resolve(mid, payload) ==
    /\ SetBridge(bridgeAfterSettle(mid, "fulfilled", payload))
    /\ SettleFrame

\* handler.reject(payload)
reject(mid, payload) ==
    /\ SetBridge(bridgeAfterSettle(mid, "rejected", payload))
    /\ SettleFrame

\* handler.resolveHide(payload)
resolveHide(mid, payload) ==
    /\ SetBridge(bridgeAfterResolveHide(mid, payload))
    /\ SettleFrame

\* ---------------------------------------------------------------- Registry
RegistryFrame ==
    UNCHANGED <<dispatch, modals, ALREADY_MOUNTED, uidSeed, symModalId,
                modalCallbacks, hideModalCallbacks, promises, adapter, applied,
                lastCall>>

register(id, comp, props) ==
    /\ MODAL_REGISTRY' = registerIn(MODAL_REGISTRY, id, comp, props)
    /\ RegistryFrame

unregister(id) ==
    /\ MODAL_REGISTRY' = unregisterIn(MODAL_REGISTRY, id)
    /\ RegistryFrame

\* ---------------------------------------------------------- Root Provider
\* const initialState = {}: the one module-level object that createStore
\* wraps and setModals(reconcile(..)) updates in place; it is the Store.
initialState == modals

\* reducer(undefined, action): the default parameter state = initialState.
reducerOfUndefined(action) == reducer(initialState, action)

\* InnerContextProvider: createStore(initialState) wraps the module's one
\* initialState object, which setModals(reconcile(..)) updates in place, so
\* the Store a provider starts with is the Store as it stands.
InnerContextProvider ==
    /\ dispatch' = "provider"
    /\ UNCHANGED <<modals, MODAL_REGISTRY, ALREADY_MOUNTED, uidSeed, symModalId,
                   modalCallbacks, hideModalCallbacks, promises, adapter,
                   applied, lastCall>>

\* -------------------------------------------------------- Mounting Adapter
\* The component create(Comp) returns, rendered with id: its body runs
\* (useModal(id), the registrations of onMount, onCleanup and the effects).
Render(id) ==
    /\ id \notin DOMAIN adapter
    /\ adapter' = With(adapter, id, "rendered")
    /\ UNCHANGED <<dispatch, modals, MODAL_REGISTRY, ALREADY_MOUNTED, uidSeed,
                   symModalId, modalCallbacks, hideModalCallbacks, promises,
                   applied, lastCall>>

\* onMount: modal.show() when defaultVisible, then ALREADY_MOUNTED[id] = true.
\* A throwing show leaves the callback before the assignment.
onMount(id, defaultVisible) ==
    /\ id \in DOMAIN adapter
    /\ adapter[id] = "rendered"
    /\ IF defaultVisible
       THEN /\ showCall(id, Undef)
            /\ ALREADY_MOUNTED' = IF Installed THEN ALREADY_MOUNTED \cup {id}
                                               ELSE ALREADY_MOUNTED
            /\ adapter' = With(adapter, id, IF Installed THEN "mounted" ELSE "crashed")
       ELSE /\ ALREADY_MOUNTED' = ALREADY_MOUNTED \cup {id}
            /\ adapter' = With(adapter, id, "mounted")
            /\ UNCHANGED <<modals, MODAL_REGISTRY, uidSeed, symModalId,
                           modalCallbacks, hideModalCallbacks, promises,
                           applied, lastCall>>
    /\ UNCHANGED dispatch

\* onCleanup: delete ALREADY_MOUNTED[id].
onCleanup(id) ==
    /\ id \in DOMAIN adapter
    /\ adapter' = Without(adapter, id)
    /\ ALREADY_MOUNTED' = ALREADY_MOUNTED \ {id}
    /\ UNCHANGED <<dispatch, modals, MODAL_REGISTRY, uidSeed, symModalId,
                   modalCallbacks, hideModalCallbacks, promises, applied, lastCall>>

\* The effect on local.keepMounted, run with the prop set.
keepMountedEffect(id) ==
    /\ id \in DOMAIN adapter
    /\ adapter[id] = "mounted"
    /\ setFlagsCall(id, [keepMounted |-> TRUE])
    /\ adapter' = IF Installed THEN adapter ELSE With(adapter, id, "crashed")
    /\ UNCHANGED <<dispatch, ALREADY_MOUNTED>>

\* modals[local.id]?.delayVisible
delayVisibleOf(id) ==
    /\ id \in DOMAIN modals
    /\ "delayVisible" \in DOMAIN modals[id]
    /\ modals[id].delayVisible

\* The effect on delayVisible: modal.show(modal.args) when it is set.
delayVisibleEffect(id) ==
    /\ id \in DOMAIN adapter
    /\ adapter[id] = "mounted"
    /\ delayVisibleOf(id)
    /\ showCall(id, Field(modals, id, "args"))
    /\ UNCHANGED <<dispatch, ALREADY_MOUNTED, adapter>>

\* ------------------------------------------------------------- ModalHolder
\* ModalHolder with props modal and handler (given or not): takes an id from
\* getUid before anything else, throws without a handler or without a
\* component for modal, and otherwise binds handler.show / handler.hide to
\* that id and renders the component with it.
ModalHolder(modal, hasHandler) ==
    LET mid == getUid
        ModalComp == IF IsComponent(modal) THEN modal ELSE getModal(modal)
    IN  /\ uidSeed < MaxUid
        /\ uidSeed' = uidSeed + 1
        /\ adapter' = IF hasHandler /\ ModalComp # Undef
                      THEN With(adapter, mid, "rendered")
                      ELSE adapter
        /\ UNCHANGED <<dispatch, modals, MODAL_REGISTRY, ALREADY_MOUNTED,
                       symModalId, modalCallbacks, hideModalCallbacks,
                       promises, applied, lastCall>>

\* ----------------------------------------------------- third-party adapters
\* antdModal, antdModalV5, antdDrawer, antdDrawerV5, muiDialog, muiDialogV5,
\* bootstrapDialog: each maps a Handler View to the props of a dialog library.
Adapters == {"antdModal", "antdModalV5", "antdDrawer", "antdDrawerV5",
             "muiDialog", "muiDialogV5", "bootstrapDialog"}

DrawerAdapters == {"antdDrawer", "antdDrawerV5"}

\* The close / cancel / ok callbacks an adapter returns.
closeTriggers(a) ==
    CASE a \in {"antdModal", "antdModalV5"} -> {"onOk", "onCancel"}
      [] a = "bootstrapDialog" -> {"onHide"}
      [] OTHER -> {"onClose"}

\* The Handler View methods a close / cancel / ok callback calls, in order.
closeCalls(a, trigger) == <<"hide">>

\* get keepMounted() of the Handler View: !!modals[mid]?.keepMounted
keepMountedOf(mid) ==
    /\ mid \in DOMAIN modals
    /\ "keepMounted" \in DOMAIN modals[mid]
    /\ modals[mid].keepMounted

\* Faulty post-close callback: removes before it resolves the hide promise.
postCloseCallsRemoveFirst(a, v, keepMounted) ==
    IF a \in DrawerAdapters /\ v
    THEN <<>>
    ELSE (IF ~keepMounted THEN <<"remove">> ELSE <<>>) \o <<"resolveHide">>

\* The Handler View methods the post-close-transition callback calls, in
\* order: afterClose, onExited, TransitionProps.onExited, and
\* afterVisibleChange(v) / afterOpenChange(v) of the drawers, which do
\* nothing for v = true.  keepMounted is the Handler View's keepMounted,
\* which resolveHide does not change.
postCloseCalls(a, v, keepMounted) ==
    IF a \in DrawerAdapters /\ v
    THEN <<>>
    ELSE <<"resolveHide">> \o (IF ~keepMounted THEN <<"remove">> ELSE <<>>)

\* One Handler View method called for mid on st, the Store, the Callback
\* Bridge and the outcome of the latest call as the calls before it left
\* them: handler.hide(), handler.remove(), handler.resolveHide().
callOn(call, mid, st) ==
    CASE call = "resolveHide" ->
           [st EXCEPT !.hide = Without(st.hide, mid),
                      !.promises = IF mid \in DOMAIN st.hide
                                   THEN Settle(st.promises, st.hide[mid], "fulfilled", Undef)
                                   ELSE st.promises]
      [] call = "remove" /\ Installed ->
           [st EXCEPT !.modals = reducer(st.modals, removeModal(mid)),
                      !.applied = Without(st.applied, mid),
                      !.show = Without(st.show, mid),
                      !.hide = Without(st.hide, mid),
                      !.lastCall = Returned("remove", mid, 0)]
      [] call = "hide" /\ Installed ->
           LET fresh == mid \notin DOMAIN st.hide
               p == IF fresh THEN Len(st.promises) + 1 ELSE st.hide[mid]
           IN  [st EXCEPT !.modals = reducer(st.modals, hideModal(mid)),
                          !.show = Without(st.show, mid),
                          !.hide = IF fresh THEN With(st.hide, mid, p) ELSE st.hide,
                          !.promises = IF fresh
                                       THEN Append(st.promises, NewPromise("hide", mid))
                                       ELSE st.promises,
                          !.lastCall = Returned("hide", mid, p)]
      [] OTHER -> [st EXCEPT !.lastCall = Threw(call, mid), !.thrown = TRUE]

\* The calls of a callback run one after the other; a throw ends the callback.
RECURSIVE runCalls(_, _, _)
runCalls(calls, mid, st) ==
    IF calls = <<>> \/ st.thrown
    THEN st
    ELSE runCalls(Tail(calls), mid, callOn(Head(calls), mid, st))

\* A callback of an adapter built on the Handler View of mid runs `calls'.
runTrigger(calls, mid) ==
    LET st == runCalls(calls, mid,
                       [modals |-> modals, applied |-> applied,
                        show |-> modalCallbacks, hide |-> hideModalCallbacks,
                        promises |-> promises, lastCall |-> lastCall,
                        thrown |-> FALSE])
    IN  /\ Len(st.promises) <= MaxPromises
        /\ modals' = st.modals
        /\ applied' = st.applied
        /\ modalCallbacks' = st.show
        /\ hideModalCallbacks' = st.hide
        /\ promises' = st.promises
        /\ lastCall' = st.lastCall
        /\ UNCHANGED <<dispatch, MODAL_REGISTRY, ALREADY_MOUNTED, uidSeed,
                       symModalId, adapter>>

\* onOk / onCancel / onClose / onHide of adapter a(useModal(mid)).
closeTrigger(a, trigger, mid) ==
    /\ trigger \in closeTriggers(a)
    /\ runTrigger(closeCalls(a, trigger), mid)

\* afterClose / onExited / afterVisibleChange(v) of adapter a(useModal(mid)).
postCloseTrigger(a, v, mid) ==
    /\ a \in Adapters
    /\ runTrigger(postCloseCalls(a, v, keepMountedOf(mid)), mid)

\* ------------------------------------------------------------ specification
Init ==
    /\ dispatch = "default"
    /\ modals = EmptyObj
    /\ MODAL_REGISTRY = EmptyObj
    /\ ALREADY_MOUNTED = {}
    /\ uidSeed = 0
    /\ symModalId = EmptyObj
    /\ modalCallbacks = EmptyObj
    /\ hideModalCallbacks = EmptyObj
    /\ promises = <<>>
    /\ adapter = EmptyObj
    /\ applied = EmptyObj
    /\ lastCall = [op |-> "none", id |-> Undef, error |-> Undef, ret |-> 0,
                   fresh |-> FALSE]

\* One modal end to end: the id "m1" shown, hidden, removed and settled by the
\* application while its Mounting Adapter renders, mounts and unmounts.
MainIds == {"m1"}

Next ==
    \/ InnerContextProvider
    \/ \E modal \in MainIds, args \in Args : show(modal, args)
    \/ \E modal \in MainIds : hide(modal)
    \/ \E modal \in MainIds : remove(modal)
    \/ \E mid \in MainIds, payload \in Payloads : resolve(mid, payload)
    \/ \E mid \in MainIds, payload \in Payloads : reject(mid, payload)
    \/ \E mid \in MainIds, payload \in Payloads : resolveHide(mid, payload)
    \/ \E id \in MainIds : Render(id)
    \/ \E id \in MainIds, defaultVisible \in BOOLEAN : onMount(id, defaultVisible)
    \/ \E id \in MainIds : onCleanup(id)
    \/ \E id \in MainIds : keepMountedEffect(id)
    \/ \E id \in MainIds : delayVisibleEffect(id)

Spec == Init /\ [][Next]_vars

\* Two modals side by side in the Callback Bridge: the imperative API and the
\* Handler Views of "m1" and "m2".
NextIds ==
    \/ InnerContextProvider
    \/ \E modal \in StringIds : show(modal, Undef)
    \/ \E modal \in StringIds : hide(modal)
    \/ \E modal \in StringIds : remove(modal)
    \/ \E mid \in StringIds, payload \in Payloads : resolve(mid, payload)
    \/ \E mid \in StringIds, payload \in Payloads : reject(mid, payload)
    \/ \E mid \in StringIds, payload \in Payloads : resolveHide(mid, payload)

SpecIds == Init /\ [][NextIds]_vars

\* The Registry: explicit registration of "m1" and of the generated ids, and
\* the component references that show and useModal register on first use.
RegistryIds == {"m1"} \cup {symModalId[c] : c \in DOMAIN symModalId}

NextRegistry ==
    \/ InnerContextProvider
    \/ \E modal \in Comps : show(modal, Undef)
    \/ \E modal \in Comps, args \in Args : useModal(modal, args)
    \/ \E id \in RegistryIds, comp \in Comps, props \in Args : register(id, comp, props)
    \/ \E id \in RegistryIds : unregister(id)

SpecRegistry == Init /\ [][NextRegistry]_vars

\* A modal that is shown and never hidden, removed or settled, under the
\* scheduling of the effects: the delayVisible effect of a mounted adapter
\* runs whenever delayVisible is set.
NextShown ==
    \/ InnerContextProvider
    \/ \E modal \in StringIds, args \in Args : show(modal, args)
    \/ \E id \in StringIds : Render(id)
    \/ \E id \in StringIds, defaultVisible \in BOOLEAN : onMount(id, defaultVisible)
    \/ \E id \in StringIds : onCleanup(id)
    \/ \E id \in StringIds : keepMountedEffect(id)
    \/ \E id \in StringIds : delayVisibleEffect(id)

SpecShown ==
    /\ Init
    /\ [][NextShown]_vars
    /\ \A id \in StringIds : WF_vars(delayVisibleEffect(id))

\* A dialog of a third-party library under its adapter: the modal "m1" is
\* shown, its Mounting Adapter mounts (and sets keepMounted), and the
\* library calls the callbacks the adapter handed it.
TriggerNames == {"onOk", "onCancel", "onClose", "onHide"}

NextAdapters ==
    \/ InnerContextProvider
    \/ \E modal \in MainIds : show(modal, Undef)
    \/ \E id \in MainIds : Render(id)
    \/ \E id \in MainIds : onMount(id, FALSE)
    \/ \E id \in MainIds : keepMountedEffect(id)
    \/ \E id \in MainIds : delayVisibleEffect(id)
    \/ \E a \in Adapters, trigger \in TriggerNames, mid \in MainIds :
          closeTrigger(a, trigger, mid)
    \/ \E a \in Adapters, v \in BOOLEAN, mid \in MainIds :
          postCloseTrigger(a, v, mid)

SpecAdapters == Init /\ [][NextAdapters]_vars

\* Two modals side by side in the Store: "m1" and "m2" shown, hidden and
\* removed while their Mounting Adapters mount and set keepMounted.
NextStore ==
    \/ InnerContextProvider
    \/ \E modal \in StringIds : show(modal, Undef)
    \/ \E modal \in StringIds : hide(modal)
    \/ \E modal \in StringIds : remove(modal)
    \/ \E id \in StringIds : Render(id)
    \/ \E id \in StringIds : onMount(id, FALSE)
    \/ \E id \in StringIds : keepMountedEffect(id)
    \/ \E id \in StringIds : delayVisibleEffect(id)

SpecStore == Init /\ [][NextStore]_vars

\* Modal references resolved to ids: strings and component references
\* passed to show, remove and useModal while ModalHolders take ids of
\* their own from getUid.
ModalRefs == Comps \cup MainIds

NextUid ==
    \/ InnerContextProvider
    \/ \E modal \in ModalRefs : show(modal, Undef)
    \/ \E modal \in Comps : remove(modal)
    \/ \E modal \in Comps : useModal(modal, Undef)
    \/ \E modal \in ModalRefs, hasHandler \in BOOLEAN : ModalHolder(modal, hasHandler)

SpecUid == Init /\ [][NextUid]_vars

\* A modal the application shows and then hides for good: show(id) is
\* called only as long as hide(id) was not, hide(id) only once a show of id
\* was applied, and there is no remove and no resolveHide, so that the Bridge
\* holds a hide-callback for id exactly when hide(id) was called.  The
\* Mounting Adapter of id mounts and unmounts at any point of it.
NextHidden ==
    \/ InnerContextProvider
    \/ \E id \in MainIds, args \in Args :
          id \notin DOMAIN hideModalCallbacks /\ show(id, args)
    \/ \E id \in MainIds :
          id \in DOMAIN applied /\ "show" \in applied[id] /\ hide(id)
    \/ \E id \in MainIds : Render(id)
    \/ \E id \in MainIds : onMount(id, FALSE)
    \/ \E id \in MainIds : onCleanup(id)
    \/ \E id \in MainIds : keepMountedEffect(id)
    \/ \E id \in MainIds : delayVisibleEffect(id)

SpecHidden == Init /\ [][NextHidden]_vars

\* An application without a Root Provider: the imperative API is called by
\* string id and by component reference, and a create() component of "m1"
\* renders, while no dispatcher is installed.
NextNoProvider ==
    \/ \E modal \in ModalRefs : show(modal, Undef)
    \/ \E modal \in ModalRefs : hide(modal)
    \/ \E modal \in ModalRefs : remove(modal)
    \/ \E id \in RegistryIds : unregister(id)
    \/ \E id \in MainIds : Render(id)
    \/ \E id \in MainIds, defaultVisible \in BOOLEAN : onMount(id, defaultVisible)
    \/ \E id \in MainIds : onCleanup(id)
    \/ \E id \in MainIds : keepMountedEffect(id)

SpecNoProvider == Init /\ [][NextNoProvider]_vars

\* ================================================================== claims
\* The promises show(id) / hide(id) created, in order of creation.
PromisesOf(api, id) ==
    {p \in 1..Len(promises) : promises[p].api = api /\ promises[p].id = id}

\* The promise the latest promise-creating show(id) returned.
LastShowPromise(id) ==
    CHOOSE p \in PromisesOf("show", id) : \A q \in PromisesOf("show", id) : q <= p

\* Promise p is held by the Callback Bridge.
InBridge(p) ==
    \/ \E id \in DOMAIN modalCallbacks : modalCallbacks[id] = p
    \/ \E id \in DOMAIN hideModalCallbacks : hideModalCallbacks[id] = p

\* ---- C1
\* C1 as stated: whenever show(id, args) is called while the promise the
\* previous show(id) returned is still unsettled, the call returns that very
\* promise and the Store's args for id are the args of this call.
C1_ShowWhileUnsettled ==
    [][\A id \in MainIds, args \in Args :
          (/\ show(id, args)
           /\ Installed
           /\ PromisesOf("show", id) # {}
           /\ promises[LastShowPromise(id)].state = "pending")
          => /\ lastCall'.ret = LastShowPromise(id)
             /\ modals'[id].args = args]_vars

\* C1 amended: whenever show(id, args) is called while the Callback Bridge
\* still holds the pending show-callback of id (no resolve, reject, hide or
\* remove of id since the show that created it), the call returns that very
\* promise, which is the one the previous show(id) returned and is still
\* pending, creates no promise, and the Store's args for id are the args of
\* this call.
C1_ShowReusesPending ==
    [][\A id \in MainIds, args \in Args :
          (show(id, args) /\ Installed /\ id \in DOMAIN modalCallbacks)
          => /\ lastCall'.ret = modalCallbacks[id]
             /\ lastCall'.ret = LastShowPromise(id)
             /\ promises[lastCall'.ret].state = "pending"
             /\ ~lastCall'.fresh
             /\ promises' = promises
             /\ modalCallbacks' = modalCallbacks
             /\ modals'[id].args = args]_vars

\* A show that returned the promise of an earlier show, still pending, with
\* the args of the later call in the Store.
C1_Witness ==
    /\ lastCall.op = "show"
    /\ lastCall.error = Undef
    /\ ~lastCall.fresh
    /\ lastCall.ret = 1
    /\ IsPending(1)
    /\ lastCall.id \in DOMAIN modals
    /\ modals[lastCall.id].args = "a1"

\* ---- C2
\* C2: a promise is settled at most once. A settled promise never changes
\* again; resolve and reject leave no show-callback for their id, resolveHide
\* no hide-callback; and a resolve, reject or resolveHide that finds no
\* callback of its kind for its id changes no promise and no table.
C2_SettledAtMostOnce ==
    /\ [][\A p \in 1..Len(promises) :
             promises[p].state # "pending" => promises'[p] = promises[p]]_vars
    /\ [][\A mid \in MainIds, payload \in Payloads :
             /\ (resolve(mid, payload) \/ reject(mid, payload))
                => /\ mid \notin DOMAIN modalCallbacks'
                   /\ (mid \notin DOMAIN modalCallbacks
                       => UNCHANGED <<promises, modalCallbacks, hideModalCallbacks>>)
             /\ resolveHide(mid, payload)
                => /\ mid \notin DOMAIN hideModalCallbacks'
                   /\ (mid \notin DOMAIN hideModalCallbacks
                       => UNCHANGED <<promises, modalCallbacks, hideModalCallbacks>>)]_vars

\* The show promise of m1 was fulfilled with 42 and its callback is gone, so
\* that the next resolve or reject finds nothing to settle.
C2_Witness ==
    /\ Len(promises) >= 1
    /\ promises[1].api = "show"
    /\ promises[1].state = "fulfilled"
    /\ promises[1].value = "42"
    /\ promises[1].id \notin DOMAIN modalCallbacks

\* ---- C3
\* C3: remove(id) drops the show- and the hide-callback of id and settles no
\* promise; and a pending promise the Callback Bridge no longer holds stays
\* pending, and outside the Bridge, whatever is called afterwards.
C3_RemoveAbandons ==
    /\ [][\A id \in MainIds :
             (remove(id) /\ Installed)
             => /\ id \notin DOMAIN modalCallbacks'
                /\ id \notin DOMAIN hideModalCallbacks'
                /\ promises' = promises]_vars
    /\ [][\A p \in 1..Len(promises) :
             (IsPending(p) /\ ~InBridge(p)) => (IsPending(p) /\ ~InBridge(p))']_vars

\* remove was called while a show promise and a hide promise of its id were
\* pending: both are pending still and the Bridge holds neither.
C3_Witness ==
    /\ lastCall.op = "remove"
    /\ lastCall.error = Undef
    /\ \E p \in PromisesOf("show", lastCall.id), q \in PromisesOf("hide", lastCall.id) :
          /\ IsPending(p) /\ ~InBridge(p)
          /\ IsPending(q) /\ ~InBridge(q)
    /\ lastCall.id \notin DOMAIN modalCallbacks
    /\ lastCall.id \notin DOMAIN hideModalCallbacks

\* ---- C4
\* C4: hide(id) drops the show-callback of id and leaves its promise as it
\* was; a resolve or reject changes no show promise of its id other than the
\* one the Bridge holds, so the promise of a show that a hide followed is
\* not settled by them; and a show(id) that finds no show-callback creates a
\* promise, pending and distinct from every earlier one, and returns it.
C4_HideDiscardsShow ==
    /\ [][\A id \in MainIds :
             (hide(id) /\ Installed)
             => /\ id \notin DOMAIN modalCallbacks'
                /\ \A p \in PromisesOf("show", id) : promises'[p] = promises[p]]_vars
    /\ [][\A id \in MainIds, payload \in Payloads :
             (resolve(id, payload) \/ reject(id, payload))
             => \A p \in PromisesOf("show", id) :
                   (id \notin DOMAIN modalCallbacks \/ modalCallbacks[id] # p)
                   => promises'[p] = promises[p]]_vars
    /\ [][\A id \in MainIds, args \in Args :
             (show(id, args) /\ Installed /\ id \notin DOMAIN modalCallbacks)
             => /\ lastCall'.fresh
                /\ lastCall'.ret = Len(promises) + 1
                /\ Len(promises') = Len(promises) + 1
                /\ promises'[lastCall'.ret].state = "pending"
                /\ modalCallbacks'[id] = lastCall'.ret]_vars

\* show, hide, show: the second show returned a new promise (3) while the
\* promise of the first (1) is pending and out of the Bridge.
C4_Witness ==
    /\ Len(promises) = 3
    /\ promises[1].api = "show" /\ promises[2].api = "hide" /\ promises[3].api = "show"
    /\ IsPending(1) /\ ~InBridge(1)
    /\ lastCall.op = "show" /\ lastCall.fresh /\ lastCall.ret = 3
    /\ lastCall.id \in DOMAIN modalCallbacks
    /\ modalCallbacks[lastCall.id] = 3
    /\ lastCall.id \in DOMAIN hideModalCallbacks
    /\ hideModalCallbacks[lastCall.id] = 2

\* ---- C5
\* C5: when the Bridge holds a pending hide-callback for id, resolveHide(v)
\* fulfils exactly that promise with v; when it holds a pending show-callback
\* for id, resolve(v) fulfils and reject(v) rejects exactly that promise with
\* v. No other promise changes, and the callbacks of the other kind and of
\* the other ids stay as they were.
OnlySettled(p, state, v) ==
    /\ Len(promises') = Len(promises)
    /\ promises'[p].state = state
    /\ promises'[p].value = v
    /\ \A q \in 1..Len(promises) : q # p => promises'[q] = promises[q]

OthersKept(table, tableAfter, id) ==
    \A o \in (DOMAIN table) \ {id} : o \in DOMAIN tableAfter /\ tableAfter[o] = table[o]

C6_ThrowsWithoutProvider ==
    [][\A id \in MainIds :
          (/\ ~Installed
           /\ \/ \E args \in Args : show(id, args)
              \/ hide(id)
              \/ remove(id)
              \/ keepMountedEffect(id))
          => /\ lastCall'.error = DispatchError
             /\ lastCall'.id = id
             /\ lastCall'.ret = 0
             /\ promises' = promises
             /\ UNCHANGED <<modalCallbacks, hideModalCallbacks>>]_vars

\* show was called with no dispatcher installed and threw.
C6_Witness ==
    /\ ~Installed
    /\ lastCall.op = "show"
    /\ lastCall.error = DispatchError
    /\ lastCall.ret = 0
    /\ promises = <<>>

\* ---- C7
\* C7: with a dispatcher installed, hide(id) and remove(id) for an id the
\* Store lacks do not throw and leave the Store as it was; and reducing a
\* remove of id twice gives the Store that reducing it once gives.
C7_AbsentIdUntouched ==
    /\ [][\A id \in MainIds :
             (Installed /\ id \notin DOMAIN modals /\ (hide(id) \/ remove(id)))
             => /\ modals' = modals
                /\ lastCall'.error = Undef]_vars
    /\ [](\A id \in StringIds :
             reducer(reducer(modals, removeModal(id)), removeModal(id))
                = reducer(modals, removeModal(id)))

\* hide was called, and returned, for an id the Store lacks.
C7_Witness ==
    /\ Installed
    /\ lastCall.op = "hide"
    /\ lastCall.error = Undef
    /\ lastCall.id \notin DOMAIN modals
    /\ lastCall.id \notin DOMAIN applied

\* ---- C8
\* C8: an id is in the Store only if a show action for it was applied at
\* least once since its last remove (or ever, if it was never removed).
C8_PresentOnlyIfShown ==
    \A id \in DOMAIN modals : id \in DOMAIN applied /\ "show" \in applied[id]

\* ---- C9
\* The Store entry of id comes from a show with args, and the adapter of id
\* has mounted.
ShownAndMounted(id, args) ==
    /\ Installed
    /\ id \in DOMAIN modals
    /\ id \in DOMAIN applied /\ "show" \in applied[id]
    /\ modals[id].args = args
    /\ id \in DOMAIN adapter /\ adapter[id] = "mounted"

VisibleWith(id, args) ==
    /\ id \in DOMAIN modals
    /\ {"visible", "delayVisible", "args"} \subseteq DOMAIN modals[id]
    /\ modals[id].visible
    /\ ~modals[id].delayVisible
    /\ modals[id].args = args

\* C9: with no hide or remove issued, once id was shown with args and its
\* adapter has mounted, the Store entry of id eventually has visible = true
\* and delayVisible = false with those args, unless the adapter unmounts or
\* a later show replaces the args first; and the step of the delayVisible
\* effect itself yields visible = true, delayVisible = false, args unchanged.
C9_EventuallyVisible ==
    /\ \A id \in StringIds, args \in Args :
          ShownAndMounted(id, args)
             ~> (VisibleWith(id, args) \/ ~ShownAndMounted(id, args))
    /\ [][\A id \in StringIds :
             delayVisibleEffect(id)
             => /\ modals'[id].visible
                /\ ~modals'[id].delayVisible
                /\ modals'[id].args = modals[id].args]_vars

\* m1, shown with a1, is visible with a1 under its mounted adapter after a
\* show that returned the promise of an earlier show (as the show of the
\* delayVisible effect does).
C9_Witness ==
    /\ VisibleWith("m1", "a1")
    /\ ShownAndMounted("m1", "a1")
    /\ lastCall.op = "show" /\ lastCall.id = "m1" /\ ~lastCall.fresh

\* ---- C10
\* C10: register(id, comp, props) on a registered id keeps the component the
\* Registry holds for id and replaces the default args by props; on an
\* unregistered id it stores comp and props. Whatever is called, as long as
\* id stays registered its component is the one it was registered with
\* first. unregister(id) can always be called and leaves id unregistered.
C10_FirstComponentKept ==
    /\ [][\A id \in RegistryIds, comp \in Comps, props \in Args :
             register(id, comp, props)
             => /\ id \in DOMAIN MODAL_REGISTRY'
                /\ MODAL_REGISTRY'[id].props = props
                /\ MODAL_REGISTRY'[id].comp =
                      IF id \in DOMAIN MODAL_REGISTRY
                      THEN MODAL_REGISTRY[id].comp ELSE comp]_vars
    /\ [][\A id \in (DOMAIN MODAL_REGISTRY) \cap (DOMAIN MODAL_REGISTRY') :
             MODAL_REGISTRY'[id].comp = MODAL_REGISTRY[id].comp]_vars
    /\ [][\A id \in RegistryIds :
             unregister(id) => id \notin DOMAIN MODAL_REGISTRY']_vars
    /\ [](\A id \in RegistryIds : ENABLED unregister(id))

\* The id generated for CompB is registered with CompA, which was registered
\* for it first, and with the default args of a later register.
C10_Witness ==
    /\ "CompB" \in DOMAIN symModalId
    /\ symModalId["CompB"] \in DOMAIN MODAL_REGISTRY
    /\ MODAL_REGISTRY[symModalId["CompB"]] = [comp |-> "CompA", props |-> "a1"]
    /\ "m1" \notin DOMAIN MODAL_REGISTRY

\* ---- C11
\* The hide promise the Bridge holds for mid is fulfilled, its entry gone.
HideResolved(mid) ==
    /\ mid \notin DOMAIN hideModalCallbacks'
    /\ mid \in DOMAIN hideModalCallbacks /\ IsPending(hideModalCallbacks[mid])
       => /\ promises'[hideModalCallbacks[mid]].state = "fulfilled"
          /\ promises'[hideModalCallbacks[mid]].value = Undef

\* C11: for every adapter, the post-close-transition callback calls
\* resolveHide once and then, only if keepMounted is false, remove once: the
\* pending hide promise of the modal is fulfilled, and the Store entry is
\* deleted when keepMounted is false and stays as it was when keepMounted is
\* true. The close / cancel / ok callbacks call hide and nothing else: the
\* Store is the one a hide action leaves, no promise is settled and the Store
\* entry is not deleted.
C11_PostCloseResolvesThenRemoves ==
    /\ [](\A a \in Adapters :
             /\ postCloseCalls(a, FALSE, FALSE) = <<"resolveHide", "remove">>
             /\ postCloseCalls(a, FALSE, TRUE) = <<"resolveHide">>
             /\ \A trigger \in closeTriggers(a) : closeCalls(a, trigger) = <<"hide">>)
    /\ [][\A a \in Adapters, mid \in MainIds :
             (postCloseTrigger(a, FALSE, mid) /\ Installed)
             => /\ HideResolved(mid)
                /\ keepMountedOf(mid)
                   => /\ modals' = modals
                      /\ modalCallbacks' = modalCallbacks
                      /\ lastCall' = lastCall
                /\ ~keepMountedOf(mid)
                   => /\ mid \notin DOMAIN modals'
                      /\ mid \notin DOMAIN modalCallbacks'
                      /\ lastCall' = Returned("remove", mid, 0)]_vars
    /\ [][\A a \in Adapters, mid \in MainIds :
             ((\E trigger \in TriggerNames : closeTrigger(a, trigger, mid)) /\ Installed)
             => /\ modals' = reducer(modals, hideModal(mid))
                /\ DOMAIN modals' = DOMAIN modals
                /\ lastCall'.op = "hide"
                /\ mid \in DOMAIN hideModalCallbacks'
                /\ \A p \in 1..Len(promises) : promises'[p] = promises[p]]_vars

\* The post-close callback ran for m1 with keepMounted set: the hide promise
\* a close callback created is fulfilled with undefined, the Bridge holds no
\* hide-callback for m1, and m1 is still in the Store, hidden.
C11_Witness ==
    /\ "m1" \in DOMAIN modals
    /\ keepMountedOf("m1")
    /\ "visible" \in DOMAIN modals["m1"] /\ ~modals["m1"].visible
    /\ "m1" \notin DOMAIN hideModalCallbacks
    /\ \E p \in PromisesOf("hide", "m1") :
          promises[p].state = "fulfilled" /\ promises[p].value = Undef
    /\ lastCall.op = "hide"

\* ---- C12
\* C12: a self-contained Root Provider that initialises starts with the empty
\* Store, whatever was applied before, and reduce of an undefined state with
\* an action of unknown kind is the empty mapping.
C12_ProviderStartsEmpty ==
    /\ [][InnerContextProvider => modals' = EmptyObj]_vars
    /\ [](reducerOfUndefined(someAction) = EmptyObj)

\* ---- C13
\* The Store entry of id right after a show action with args was applied.
ShownEntry(id, args) ==
    /\ id \in DOMAIN modals'
    /\ modals'[id].id = id
    /\ modals'[id].visible = (id \in ALREADY_MOUNTED)
    /\ modals'[id].delayVisible = (id \notin ALREADY_MOUNTED)
    /\ modals'[id].args = args
    /\ IF id \in DOMAIN modals /\ "keepMounted" \in DOMAIN modals[id]
       THEN /\ "keepMounted" \in DOMAIN modals'[id]
            /\ modals'[id].keepMounted = modals[id].keepMounted
       ELSE "keepMounted" \notin DOMAIN modals'[id]

\* C13: right after a show action for id is applied (by show(id, args), by
\* the show() of onMount with defaultVisible, or by the show(args) of the
\* delayVisible effect), the Store entry of id has visible equal to
\* "id is in ALREADY_MOUNTED" and delayVisible equal to its negation, as
\* ALREADY_MOUNTED stood when the action was applied; its args are the args
\* of the action and a keepMounted flag set before is still set.
C13_ShowSetsVisibleByMounted ==
    [][\A id \in MainIds :
          /\ \A args \in Args : (show(id, args) /\ Installed) => ShownEntry(id, args)
          /\ (onMount(id, TRUE) /\ Installed) => ShownEntry(id, Undef)
          /\ delayVisibleEffect(id) /\ Installed
             => ShownEntry(id, Field(modals, id, "args"))]_vars

\* show(m1, a1) was applied after the component of m1 had mounted, set
\* keepMounted and unmounted again: visible = false, delayVisible = true,
\* keepMounted still set.
C13_Witness ==
    /\ lastCall.op = "show" /\ lastCall.error = Undef
    /\ "m1" \notin ALREADY_MOUNTED
    /\ "m1" \notin DOMAIN adapter
    /\ "m1" \in DOMAIN modals
    /\ modals["m1"] = [id |-> "m1", args |-> "a1", visible |-> FALSE,
                       delayVisible |-> TRUE, keepMounted |-> TRUE]

\* ---- C14
\* C14: hide(id) for an id the Store holds leaves an entry for id with
\* visible = false and with id, args, delayVisible and keepMounted (every
\* field but visible) as they were; and an id leaves the Store only by a
\* remove of that id.
C14_HideKeepsOtherFields ==
    /\ [][\A id \in MainIds :
             (hide(id) /\ Installed /\ id \in DOMAIN modals)
             => /\ id \in DOMAIN modals'
                /\ modals'[id].visible = FALSE
                /\ DOMAIN modals'[id] = DOMAIN modals[id] \cup {"visible"}
                /\ \A k \in DOMAIN modals[id] \ {"visible"} :
                      modals'[id][k] = modals[id][k]]_vars
    /\ [][\A id \in DOMAIN modals : id \notin DOMAIN modals' => remove(id)]_vars

\* hide(m1) was applied to an entry with args, delayVisible and keepMounted
\* set: the entry is there, hidden, with all three as they were.
C14_Witness ==
    /\ lastCall.op = "hide" /\ lastCall.error = Undef /\ lastCall.id = "m1"
    /\ "m1" \in DOMAIN modals
    /\ modals["m1"] = [id |-> "m1", args |-> "a1", visible |-> FALSE,
                       delayVisible |-> TRUE, keepMounted |-> TRUE]

\* ---- C15
\* The entries of every id other than X are the same in state and after.
OtherEntriesSame(state, after, X) ==
    /\ DOMAIN after \ {X} = DOMAIN state \ {X}
    /\ \A Y \in DOMAIN state \ {X} : after[Y] = state[Y]

\* The reducer actions for X.
ActionsFor(X) ==
    {showModal(X, args) : args \in Args}
       \cup {hideModal(X), removeModal(X), setModalFlags(X, [keepMounted |-> TRUE])}

\* C15: reducing a show, hide, remove or set-flags action for X leaves the
\* entries of all other ids as they were, adding and deleting none, and
\* reducing an action of unknown kind returns the state as it was; so does
\* every step the imperative API and the Mounting Adapter take for X.
C15_OtherIdsUntouched ==
    /\ [](\A X \in StringIds : \A action \in ActionsFor(X) :
             OtherEntriesSame(modals, reducer(modals, action), X))
    /\ [](reducer(modals, someAction) = modals)
    /\ [][\A X \in StringIds :
             (\/ show(X, Undef) \/ hide(X) \/ remove(X)
              \/ keepMountedEffect(X) \/ delayVisibleEffect(X))
             => OtherEntriesSame(modals, modals', X)]_vars

\* remove(m1) deleted the entry of m1 while m2 is in the Store, visible and
\* kept mounted.
C15_Witness ==
    /\ lastCall.op = "remove" /\ lastCall.error = Undef /\ lastCall.id = "m1"
    /\ "m1" \notin DOMAIN modals
    /\ "m2" \in DOMAIN modals
    /\ modals["m2"] = [id |-> "m2", args |-> Undef, visible |-> TRUE,
                       delayVisible |-> FALSE, keepMounted |-> TRUE]

\* ---- C16
\* The pending promises hide(id) created.
PendingHidePromises(id) == {p \in PromisesOf("hide", id) : IsPending(p)}

\* The promises a step creates or settles.
CreatedOrSettled ==
    {p \in 1..Len(promises') : p > Len(promises) \/ promises'[p] # promises[p]}

\* C16 as stated: whenever hide(id) is called while a promise an earlier
\* hide(id) returned is still pending, the call returns such a promise and
\* creates none.
C16_HideWhilePending ==
    [][\A id \in StringIds :
          (hide(id) /\ Installed /\ PendingHidePromises(id) # {})
          => /\ lastCall'.ret \in PendingHidePromises(id)
             /\ ~lastCall'.fresh]_vars

\* C16 amended: whenever hide(id) is called while the Callback Bridge still
\* holds the pending hide-callback of id (no resolveHide and no remove of id
\* since the hide that created it), the call returns that very promise and
\* creates none. At any time the show-callback the Bridge holds for id is a
\* promise a show(id) created and its hide-callback one a hide(id) created,
\* and the two are independent: no step creates or settles more than one
\* promise, so that a step that creates or settles a hide promise creates and
\* settles no show promise.
C16_HideReusesPending ==
    /\ [][\A id \in StringIds :
             (hide(id) /\ Installed /\ id \in DOMAIN hideModalCallbacks)
             => /\ lastCall'.ret = hideModalCallbacks[id]
                /\ IsPending(lastCall'.ret)
                /\ ~lastCall'.fresh
                /\ promises' = promises
                /\ hideModalCallbacks' = hideModalCallbacks]_vars
    /\ [](/\ \A id \in DOMAIN modalCallbacks :
                modalCallbacks[id] \in PromisesOf("show", id)
          /\ \A id \in DOMAIN hideModalCallbacks :
                hideModalCallbacks[id] \in PromisesOf("hide", id))
    /\ [][Cardinality(CreatedOrSettled) <= 1]_vars

\* hide(m1) returned the pending promise of an earlier hide(m1) while the
\* Bridge also holds the pending hide-callback of m2.
C16_Witness ==
    /\ lastCall.op = "hide" /\ lastCall.error = Undef /\ lastCall.id = "m1"
    /\ ~lastCall.fresh
    /\ "m1" \in DOMAIN hideModalCallbacks
    /\ lastCall.ret = hideModalCallbacks["m1"]
    /\ IsPending(lastCall.ret)
    /\ "m2" \in DOMAIN hideModalCallbacks
    /\ IsPending(hideModalCallbacks["m2"])

\* ---- C17
\* C17: a string resolves to itself; a component reference that carries an
\* id keeps it in every step, and every call made with the reference uses
\* that id; two component references never carry the same id, and the id a
\* reference without one would be given now is carried by no other.
C17_ModalIdStableInjective ==
    /\ [](\A s \in StringIds : getModalId(s) = s)
    /\ [](\A c \in DOMAIN symModalId, d \in DOMAIN symModalId :
             c # d => symModalId[c] # symModalId[d])
    /\ [](\A c \in Comps \ DOMAIN symModalId, d \in DOMAIN symModalId :
             getModalId(c) # symModalId[d])
    /\ [][\A c \in DOMAIN symModalId :
             c \in DOMAIN symModalId' /\ symModalId'[c] = symModalId[c]]_vars
    /\ [][\A modal \in ModalRefs :
             (show(modal, Undef) \/ remove(modal))
             => /\ lastCall'.id = getModalId(modal)
                /\ IsComponent(modal) => symModalId'[modal] = lastCall'.id]_vars

\* CompA and CompB carry different ids, a ModalHolder took the id between
\* theirs, and the latest call was made with CompB under its id.
C17_Witness ==
    /\ DOMAIN symModalId = Comps
    /\ symModalId["CompA"] = "_nice_modal_0"
    /\ symModalId["CompB"] = "_nice_modal_2"
    /\ "_nice_modal_1" \in DOMAIN adapter
    /\ lastCall.id = "_nice_modal_2"
    /\ lastCall.error = Undef

\* ---- C18
\* C18: once the application has called hide(id) after show(id), and calls
\* show(id) no more, the Store entry of id never has visible = true,
\* whenever the adapter of id mounts, unmounts or runs its delayVisible
\* effect.
C18_HiddenStaysHidden ==
    \A id \in MainIds :
       id \in DOMAIN hideModalCallbacks
       => ~(/\ id \in DOMAIN modals
            /\ "visible" \in DOMAIN modals[id]
            /\ modals[id].visible)

\* ---- C19
\* The call threw and left the Store and the Callback Bridge as they were.
ThrewKeepingStoreAndBridge ==
    /\ lastCall'.error = DispatchError
    /\ UNCHANGED <<modals, modalCallbacks, hideModalCallbacks, promises>>

\* C19 as stated: a show, hide, remove or setFlags, by string id or by
\* component reference, that throws because no dispatcher is installed
\* leaves the Store, both callback tables and the Registry as they were.
C19_ThrowChangesNothing ==
    /\ [][\A modal \in ModalRefs :
             (~Installed /\ (show(modal, Undef) \/ hide(modal) \/ remove(modal)))
             => /\ ThrewKeepingStoreAndBridge
                /\ MODAL_REGISTRY' = MODAL_REGISTRY]_vars
    /\ [][\A id \in MainIds :
             (~Installed /\ (keepMountedEffect(id) \/ onMount(id, TRUE)))
             => /\ ThrewKeepingStoreAndBridge
                /\ MODAL_REGISTRY' = MODAL_REGISTRY]_vars

\* C19 amended: such a call leaves the Store and both callback tables as
\* they were and creates no promise; hide, remove, setFlags and a show by
\* string id leave the Registry as it was too, while a show by a component
\* reference that is not registered has registered it, under its generated
\* id and without default args, before it throws.
C19_ThrowKeepsStoreAndBridge ==
    /\ [][\A modal \in ModalRefs :
             /\ (~Installed /\ show(modal, Undef))
                => /\ ThrewKeepingStoreAndBridge
                   /\ MODAL_REGISTRY' =
                         IF IsComponent(modal) /\ getModalId(modal) \notin DOMAIN MODAL_REGISTRY
                         THEN With(MODAL_REGISTRY, getModalId(modal),
                                   [comp |-> modal, props |-> Undef])
                         ELSE MODAL_REGISTRY
             /\ (~Installed /\ (hide(modal) \/ remove(modal)))
                => /\ ThrewKeepingStoreAndBridge
                   /\ MODAL_REGISTRY' = MODAL_REGISTRY]_vars
    /\ [][\A id \in MainIds :
             (~Installed /\ (keepMountedEffect(id) \/ onMount(id, TRUE)))
             => /\ ThrewKeepingStoreAndBridge
                /\ MODAL_REGISTRY' = MODAL_REGISTRY]_vars

\* show(CompA) threw with no dispatcher installed: the Store and the Bridge
\* are empty, and CompA is registered under the id generated for it.
C19_Witness ==
    /\ ~Installed
    /\ lastCall.op = "show" /\ lastCall.error = DispatchError
    /\ "CompA" \in DOMAIN symModalId
    /\ lastCall.id = symModalId["CompA"]
    /\ lastCall.id \in DOMAIN MODAL_REGISTRY
    /\ MODAL_REGISTRY[lastCall.id] = [comp |-> "CompA", props |-> Undef]
    /\ modals = EmptyObj
    /\ modalCallbacks = EmptyObj /\ hideModalCallbacks = EmptyObj
    /\ promises = <<>>

\* ---- C20
\* C20: in every reachable state every entry of the show-callback table and
\* of the hide-callback table refers to a promise that is still pending, and
\* the promise a show or a hide returns is pending when it is returned.
C20_BridgeHoldsOnlyPending ==
    /\ [](\A id \in DOMAIN modalCallbacks : IsPending(modalCallbacks[id]))
    /\ [](\A id \in DOMAIN hideModalCallbacks : IsPending(hideModalCallbacks[id]))
    /\ [][\A modal \in MainIds, args \in Args :
             ((show(modal, args) \/ hide(modal)) /\ lastCall'.error = Undef)
             => /\ lastCall'.ret \in 1..Len(promises')
                /\ promises'[lastCall'.ret].state = "pending"]_vars

\* A show promise and a hide promise of "m1" were settled and left the
\* tables, and a later show("m1") returned a third, pending promise that the
\* show-callback table now holds.
C20_Witness ==
    /\ Len(promises) = 3
    /\ promises[1].api = "show" /\ promises[1].state # "pending"
    /\ promises[2].api = "hide" /\ promises[2].state = "fulfilled"
    /\ "m1" \in DOMAIN modalCallbacks
    /\ modalCallbacks["m1"] = 3
    /\ promises[3].state = "pending"
    /\ "m1" \notin DOMAIN hideModalCallbacks
    /\ lastCall.op = "show" /\ lastCall.ret = 3

\* ---- C21
\* C21: in every state reached through show, hide, remove, the keepMounted
\* set-flags and mount / unmount events, no Store entry has visible = true
\* and delayVisible = true at the same time.
C21_NeverVisibleAndDelayed ==
    \A id \in DOMAIN modals :
       ~(/\ "visible" \in DOMAIN modals[id]
         /\ modals[id].visible = TRUE
         /\ "delayVisible" \in DOMAIN modals[id]
         /\ modals[id].delayVisible = TRUE)

\* The entry of "m1", shown before its component mounted and flagged
\* keepMounted by the mounted component, was shown again by the delayVisible
\* effect: it is visible and no longer delayVisible.
C21_Witness ==
    /\ "m1" \in DOMAIN modals
    /\ "m1" \in ALREADY_MOUNTED
    /\ "visible" \in DOMAIN modals["m1"] /\ modals["m1"].visible = TRUE
    /\ "delayVisible" \in DOMAIN modals["m1"] /\ modals["m1"].delayVisible = FALSE
    /\ "keepMounted" \in DOMAIN modals["m1"] /\ modals["m1"].keepMounted = TRUE
    /\ lastCall.op = "show" /\ lastCall.error = Undef /\ ~lastCall.fresh

====
